---- MODULE Spec2Model ----
(***************************************************************************)
(* Guide Booker invoice service: POST /invoices (app/main.py), the request *)
(* schema (app/models.py) and generate_invoice_pdf (app/pdf_generator.py). *)
(*                                                                         *)
(* Numbers.  Python floats are modelled as exact decimal fixed point: a    *)
(* money value is an integer count of 1/10000 currency units, so 75.00 is  *)
(* 750000 and a tax of 7% on one cent (0.0007) is 7.  tax_rate is a whole  *)
(* percentage.  Texts are strings; U+2212 (the minus sign of the Discount  *)
(* row) is written MinusSign, distinct from the ASCII "-" of a negative    *)
(* number.                                                                 *)
(*                                                                         *)
(* Layout.  reportlab's page flow is modelled in abstract height units:    *)
(* one unit is one text line, PageHeight units fit in the frame of a page. *)
(***************************************************************************)
EXTENDS Integers, Sequences, FiniteSets, TLC

VARIABLES
    body,       \* body[w]: the request body worker w received
    pc,         \* pc[w]: where worker w is in create_invoice / generate_invoice_pdf
    data,       \* data[w]: the validated BookingInvoiceRequest (payload)
    calls,      \* calls[w]: how many times generate_invoice_pdf was entered
    buf,        \* buf[w]: the BytesIO object that call w writes to (a heap address)
    heap,       \* heap[b]: the content of BytesIO object b (a sequence of pages)
    sym,        \* sym[w]: the currency prefix
    styles,     \* styles[w]: the style dictionary of the call
    story,      \* story[w]: the list of flowables
    amounts,    \* amounts[w]: the locals subtotal, tax_amount, total
    builds,     \* builds[w]: how many times doc.build was entered
    canvas,     \* canvas[w]: pages laid out so far by doc.build
    raised,     \* raised[w]: doc.build raised LayoutError
    ret,        \* ret[w]: the value generate_invoice_pdf returned
    response    \* response[w]: the HTTP response sent

vars == <<body, pc, data, calls, buf, heap, sym, styles, story, amounts, builds,
          canvas, raised, ret, response>>

-----------------------------------------------------------------------------
(* Bounds of the model *)

MaxItems == 3       \* longest item list drawn
PageHeight == 7     \* height units that fit between the margins of one page
CharsPerLine == 8   \* characters of a description that fit in one line of its column

Workers == {1, 2}

None == <<>>
Some(v) == <<v>>
MinusSign == "[U+2212]"

-----------------------------------------------------------------------------
(* Number formatting: f"{value:,.2f}" *)

Digits == <<"0", "1", "2", "3", "4", "5", "6", "7", "8", "9">>

RECURSIVE str(_)
str(n) ==
    IF n < 0 THEN "-" \o str(0 - n)
    ELSE IF n < 10 THEN Digits[n + 1]
    ELSE str(n \div 10) \o Digits[(n % 10) + 1]

Pad(n, width) ==
    IF width = 3 /\ n < 10 THEN "00" \o str(n)
    ELSE IF (width = 3 /\ n < 100) \/ (width = 2 /\ n < 10) THEN "0" \o str(n)
    ELSE str(n)

RECURSIVE Grouped(_)
Grouped(n) ==
    IF n < 1000 THEN str(n)
    ELSE Grouped(n \div 1000) \o "," \o Pad(n % 1000, 3)

Abs(v) == IF v < 0 THEN 0 - v ELSE v

\* Hundredths of a unit nearest to |value|, ties to even.
RoundedCents(value) ==
    LET q == Abs(value) \div 100
        r == Abs(value) % 100
    IN  IF r > 50 \/ (r = 50 /\ q % 2 = 1) THEN q + 1 ELSE q

Fixed2(value) ==
    LET c == RoundedCents(value)
    IN  (IF value < 0 THEN "-" ELSE "") \o Grouped(c \div 100) \o "." \o Pad(c % 100, 2)

_currency(value, symbol) == symbol \o Fixed2(value)

\* repr of a float holding a whole number, as in f"{data.tax_rate}"
FloatRepr(x) == str(x) \o ".0"

-----------------------------------------------------------------------------
(* Request bodies drawn as inputs *)

ShortDescription == "Tour"
WrappingDescription == "City Walking Tour - Full Day"
\* Text that wraps to more lines than a page holds.
EndlessDescription ==
    "Walking tour of the old town, the river temples, the night market, "
    \o "the flower market, the canal boats and every museum on the way"

ItemPool ==
    { [description |-> WrappingDescription, quantity |-> 2, unit_price |-> 750000],
      [description |-> ShortDescription,    quantity |-> 1, unit_price |-> 450000],
      [description |-> ShortDescription,    quantity |-> 1, unit_price |-> 0],
      [description |-> EndlessDescription,  quantity |-> 1, unit_price |-> 10100],
      [description |-> ShortDescription,    quantity |-> 0, unit_price |-> 750000],
      [description |-> ShortDescription,    quantity |-> 1, unit_price |-> 0 - 100] }

ItemLists == UNION { [1..n -> ItemPool] : n \in 0..MaxItems }

TaxRates == {0 - 1, 0, 7, 100, 101}
Discounts == {0 - 100, 0, 100000, 12345600}
NotesValues == {None, Some(""), Some("Thank you for choosing Guide Booker!")}
Currencies == {"USD", "THB"}
InvoiceNumbers == {None, Some("INV-2026-001")}

JsonBodies ==
    [ syntax : {"json"},
      invoice_number : InvoiceNumbers,
      items : ItemLists,
      tax_rate : TaxRates,
      discount : Discounts,
      notes : NotesValues,
      currency : Currencies ]

\* A body that is not JSON at all ("not json").
GarbageBody ==
    [ syntax |-> "garbage", invoice_number |-> None, items |-> <<>>,
      tax_rate |-> 0, discount |-> 0, notes |-> None, currency |-> "USD" ]

Bodies == JsonBodies \cup {GarbageBody}

\* The worker that takes no request in a run of a single request.
NoBody == GarbageBody

-----------------------------------------------------------------------------
(* app/models.py: the schema FastAPI validates the body against *)

BookingItemValid(item) ==
    /\ item.quantity >= 1
    /\ item.unit_price >= 0

\* The item list without min_length=1.
ItemsValidNoMinLength(items) ==
    \A k \in 1..Len(items) : BookingItemValid(items[k])

ItemsValid(items) ==
    /\ Len(items) >= 1
    /\ \A k \in 1..Len(items) : BookingItemValid(items[k])

BookingInvoiceRequestValid(b) ==
    /\ b.syntax = "json"
    /\ b.invoice_number # None
    /\ ItemsValid(b.items)
    /\ b.tax_rate >= 0 /\ b.tax_rate <= 100
    /\ b.discount >= 0

\* The model object built from a body that validates.
BookingInvoiceRequest(b) ==
    [ invoice_number |-> b.invoice_number[1],
      items |-> b.items,
      tax_rate |-> b.tax_rate,
      discount |-> b.discount,
      notes |-> b.notes,
      currency |-> b.currency ]

NoData ==
    [ invoice_number |-> "", items |-> <<>>, tax_rate |-> 0, discount |-> 0,
      notes |-> None, currency |-> "" ]

-----------------------------------------------------------------------------
(* app/pdf_generator.py: the story generate_invoice_pdf builds *)

\* The paragraph styles of one call, by role (font size in points).
_build_styles ==
    [ title    |-> [name |-> "InvoiceTitle",    fontSize |-> 28],
      subtitle |-> [name |-> "InvoiceSubtitle", fontSize |-> 10],
      heading  |-> [name |-> "SectionHeading",  fontSize |-> 11],
      normal   |-> [name |-> "NormalText",      fontSize |-> 10],
      bold     |-> [name |-> "BoldText",        fontSize |-> 10],
      footer   |-> [name |-> "Footer",          fontSize |-> 8,  leading |-> 12],
      notes    |-> [name |-> "Notes",           fontSize |-> 9,  leading |-> 13] ]

Paragraph(text, style) == [text |-> text, style |-> style.name]
\* A cell given as a bare string.
Plain(text) == [text |-> text, style |-> ""]

\* reportlab's Table keeps repeatRows = 0 unless the caller passes it.
TableDefaultRepeatRows == 0

Table(region, rows) ==
    [ kind |-> "Table", region |-> region, rows |-> rows,
      repeatRows |-> TableDefaultRepeatRows, backgrounds |-> <<>> ]

Spacer == [ kind |-> "Spacer", region |-> "spacer", rows |-> << <<Plain("")>> >>,
            repeatRows |-> 0, backgrounds |-> <<>> ]

Flow(region, para) ==
    [ kind |-> "Paragraph", region |-> region, rows |-> << <<para>> >>,
      repeatRows |-> 0, backgrounds |-> <<>> ]

\* The prefix of a renderer that knows dollars only.
SymbolDollar(currency) == "$"

\* line 107
Symbol(currency) == IF currency = "USD" THEN "$" ELSE currency \o " "

\* lines 109-137; the InvNum style derives from styles["bold"]
HeaderBand(d, st) ==
    << Table("header",
             << << Paragraph("<b>Guide Booker</b>", st.title),
                   Paragraph("<b>INVOICE</b><br/>" \o d.invoice_number,
                             [name |-> "InvNum"]) >> >>),
       Spacer >>

\* lines 139-162; the customer, date and guide fields are not part of the
\* record modelled here, only the labels are kept
InfoBand(d, st) ==
    << Table("info",
             << << Paragraph("<b>Bill To:</b>", st.normal),
                   Paragraph("<b>Booking Date:</b>", st.normal) >> >>),
       Spacer >>

\* lines 166-174
ItemsHeaderRow(st) ==
    << Paragraph("<b>#</b>", st.bold),
       Paragraph("<b>Description</b>", st.bold),
       Paragraph("<b>Qty</b>", st.bold),
       Paragraph("<b>Unit Price</b>", st.bold),
       Paragraph("<b>Amount</b>", st.bold) >>

\* The row of a loop over enumerate(data.items), which counts from 0.
ItemRowFromZero(idx, item, symbol, st) ==
    LET amount == item.quantity * item.unit_price
    IN  << Paragraph(str(idx - 1), st.normal),
           Paragraph(item.description, st.normal),
           Paragraph(str(item.quantity), st.normal),
           Paragraph(_currency(item.unit_price, symbol), st.normal),
           Paragraph(_currency(amount, symbol), st.normal) >>

\* lines 176-185: the row appended for the item enumerate() numbers idx
ItemRow(idx, item, symbol, st) ==
    LET amount == item.quantity * item.unit_price
    IN  << Paragraph(str(idx), st.normal),
           Paragraph(item.description, st.normal),
           Paragraph(str(item.quantity), st.normal),
           Paragraph(_currency(item.unit_price, symbol), st.normal),
           Paragraph(_currency(amount, symbol), st.normal) >>

\* lines 166-185: enumerate(data.items, start=1)
RECURSIVE AppendItemRows(_, _, _, _, _)
AppendItemRows(tbl_data, items, idx, symbol, st) ==
    IF idx > Len(items) THEN tbl_data
    ELSE AppendItemRows(Append(tbl_data, ItemRow(idx, items[idx], symbol, st)),
                        items, idx + 1, symbol, st)

TblData(d, symbol, st) ==
    AppendItemRows(<<ItemsHeaderRow(st)>>, d.items, 1, symbol, st)

\* The loop shading the rows whose number from 0 is odd.
RECURSIVE AlternateRowsOdd(_, _, _)
AlternateRowsOdd(tbl_style, i, n) ==
    IF i >= n THEN tbl_style
    ELSE AlternateRowsOdd(
            IF i % 2 = 1
            THEN Append(tbl_style, [row |-> i, colour |-> "TABLE_ALT_ROW"])
            ELSE tbl_style,
            i + 1, n)

\* lines 200-203: range(1, len(tbl_data)), rows numbered from 0 (the header)
RECURSIVE AlternateRows(_, _, _)
AlternateRows(tbl_style, i, n) ==
    IF i >= n THEN tbl_style
    ELSE AlternateRows(
            IF i % 2 = 0
            THEN Append(tbl_style, [row |-> i, colour |-> "TABLE_ALT_ROW"])
            ELSE tbl_style,
            i + 1, n)

\* lines 187-206
ItemsTable(d, symbol, st) ==
    LET tbl_data == TblData(d, symbol, st)
    IN  << [ Table("items", tbl_data) EXCEPT
               !.backgrounds =
                   AlternateRows(<<[row |-> 0, colour |-> "TABLE_HEADER_BG"]>>,
                                 1, Len(tbl_data)) ],
           Spacer >>

\* line 209
RECURSIVE SumAmounts(_, _)
SumAmounts(items, k) ==
    IF k > Len(items) THEN 0
    ELSE items[k].quantity * items[k].unit_price + SumAmounts(items, k + 1)

Subtotal(d) == SumAmounts(d.items, 1)
\* line 210
TaxAmount(d) == (Subtotal(d) * d.tax_rate) \div 100
\* A total that is never shown below zero.
TotalClamped(d) ==
    IF Subtotal(d) + TaxAmount(d) - d.discount < 0 THEN 0
    ELSE Subtotal(d) + TaxAmount(d) - d.discount

\* line 211
Total(d) == Subtotal(d) + TaxAmount(d) - d.discount

Amounts(d) ==
    [subtotal |-> Subtotal(d), tax_amount |-> TaxAmount(d), total |-> Total(d)]

NoAmounts == [subtotal |-> 0, tax_amount |-> 0, total |-> 0]

\* A totals block that lists a discount only when there is one.
TotalsDataDiscountIfAny(d, a, symbol, st) ==
    << << Plain(""),
          Paragraph("<b>Subtotal</b>", st.bold),
          Paragraph(_currency(a.subtotal, symbol), st.normal) >>,
       << Plain(""),
          Paragraph("<b>Tax (" \o FloatRepr(d.tax_rate) \o "%)</b>", st.bold),
          Paragraph(_currency(a.tax_amount, symbol), st.normal) >> >>
    \o (IF d.discount = 0 THEN << >>
        ELSE << << Plain(""),
                   Paragraph("<b>Discount</b>", st.bold),
                   Paragraph(MinusSign \o _currency(d.discount, symbol), st.normal) >> >>)
    \o << << Plain(""),
             Paragraph("<b>TOTAL</b>", st.bold),
             Paragraph("<b>" \o _currency(a.total, symbol) \o "</b>",
                       [name |-> "TotalValue"]) >> >>

\* lines 213-256
TotalsData(d, a, symbol, st) ==
    << << Plain(""),
          Paragraph("<b>Subtotal</b>", st.bold),
          Paragraph(_currency(a.subtotal, symbol), st.normal) >>,
       << Plain(""),
          Paragraph("<b>Tax (" \o FloatRepr(d.tax_rate) \o "%)</b>", st.bold),
          Paragraph(_currency(a.tax_amount, symbol), st.normal) >>,
       << Plain(""),
          Paragraph("<b>Discount</b>", st.bold),
          Paragraph(MinusSign \o _currency(d.discount, symbol), st.normal) >>,
       << Plain(""),
          Paragraph("<b>TOTAL</b>", st.bold),
          Paragraph("<b>" \o _currency(a.total, symbol) \o "</b>",
                    [name |-> "TotalValue"]) >> >>

TotalsTable(d, a, symbol, st) == << Table("totals", TotalsData(d, a, symbol, st)) >>

\* `if data.notes is not None:`
TruthyNotNone(notes) == notes # None

\* line 259: `if data.notes:` is false for None and for the empty string
Truthy(notes) == notes # None /\ notes[1] # ""

\* lines 258-261
NotesRegion(d, st) ==
    IF Truthy(d.notes)
    THEN << Spacer,
            Flow("notes", Paragraph("<i>Notes: " \o d.notes[1] \o "</i>", st.notes)) >>
    ELSE << >>

\* lines 263-276 (the separator dots of the first line are written "-")
Footer(st) ==
    << Spacer,
       Flow("footer",
            Paragraph("Guide Booker - Professional Tour Guide Services - guidebooker.com",
                      st.footer)),
       Flow("footer",
            Paragraph("This is a computer-generated invoice. No signature required.",
                      st.footer)) >>

-----------------------------------------------------------------------------
(* doc.build(story): reportlab's page flow *)

\* Lines a text wraps to in the description column.
WrappedLines(text) ==
    IF Len(text) = 0 THEN 1
    ELSE (Len(text) + CharsPerLine - 1) \div CharsPerLine

\* A row is as tall as its tallest cell; only an item's description is free
\* text long enough to wrap.
RowHeight(f, r) ==
    IF f.region = "items" /\ r > 1 THEN WrappedLines(f.rows[r][2].text) ELSE 1

\* The rows of the story in flow order: what the page flow places one by one.
RECURSIVE RowsOf(_, _, _)
RowsOf(f, i, r) ==
    IF r > Len(f.rows) THEN << >>
    ELSE << [ flow |-> i, region |-> f.region, row |-> r,
              height |-> RowHeight(f, r), cells |-> f.rows[r],
              repeatRows |-> f.repeatRows ] >>
         \o RowsOf(f, i, r + 1)

RECURSIVE Units(_, _)
Units(flowables, i) ==
    IF i > Len(flowables) THEN << >>
    ELSE RowsOf(flowables[i], i, 1) \o Units(flowables, i + 1)

Placed(u) == [region |-> u.region, row |-> u.row, cells |-> u.cells]

\* Table._splitRows: the rows a continuation page of table u.flow starts with,
\* data[:repeatRows].
RepeatedRows(units, u) ==
    SelectSeq(units, LAMBDA h : h.flow = u.flow /\ h.row <= u.repeatRows
                                /\ u.row > u.repeatRows)

RECURSIVE HeightOf(_, _)
HeightOf(units, k) ==
    IF k > Len(units) THEN 0 ELSE units[k].height + HeightOf(units, k + 1)

RECURSIVE PlacedAll(_, _)
PlacedAll(units, k) ==
    IF k > Len(units) THEN << >>
    ELSE <<Placed(units[k])>> \o PlacedAll(units, k + 1)

\* Fills pages top to bottom.  A row that does not fit in what is left of the
\* page goes to a new page (after the table's repeated rows); a row that does
\* not fit on a fresh page either cannot be placed: LayoutError.
RECURSIVE Place(_, _, _, _, _, _)
Place(units, k, pages, page, used, fresh) ==
    IF k > Len(units) THEN [ok |-> TRUE, pages |-> Append(pages, page)]
    ELSE LET u == units[k]
         IN  IF used + u.height <= PageHeight
             THEN Place(units, k + 1, pages, Append(page, Placed(u)),
                        used + u.height, FALSE)
             ELSE IF fresh
             THEN [ok |-> FALSE, pages |-> pages]
             ELSE LET head == RepeatedRows(units, u)
                  IN  Place(units, k, Append(pages, page), PlacedAll(head, 1),
                            HeightOf(head, 1), TRUE)

Layout(flowables) == Place(Units(flowables, 1), 1, << >>, << >>, 0, TRUE)

-----------------------------------------------------------------------------
(* app/main.py: POST /invoices, one request per worker thread *)

NoResponse == [status |-> 0, media_type |-> "", disposition |-> "", body |-> << >>]

\* FastAPI answers a body that fails the schema itself; create_invoice is not run.
Reject(w) ==
    /\ pc[w] = "request"
    /\ ~BookingInvoiceRequestValid(body[w])
    /\ response' = [response EXCEPT ![w] =
                      [ status |-> 422, media_type |-> "application/json",
                        disposition |-> "", body |-> << >> ]]
    /\ pc' = [pc EXCEPT ![w] = "responded"]
    /\ UNCHANGED <<body, data, calls, buf, heap, sym, styles, story, amounts,
                   builds, canvas, raised, ret>>

\* create_invoice(payload) is entered with the validated model.
Accept(w) ==
    /\ pc[w] = "request"
    /\ BookingInvoiceRequestValid(body[w])
    /\ data' = [data EXCEPT ![w] = BookingInvoiceRequest(body[w])]
    /\ pc' = [pc EXCEPT ![w] = "handler"]
    /\ UNCHANGED <<body, calls, buf, heap, sym, styles, story, amounts, builds,
                   canvas, raised, ret, response>>

\* One module-level buffer that every call writes to.
SharedBuffer(w) == 1

\* buf = BytesIO(): every call allocates an object of its own.
NewBuffer(w) == w

\* main.py line 44 and pdf_generator.py lines 95-107
Enter(w) ==
    /\ pc[w] = "handler"
    /\ calls' = [calls EXCEPT ![w] = @ + 1]
    /\ buf' = [buf EXCEPT ![w] = NewBuffer(w)]
    /\ heap' = [heap EXCEPT ![NewBuffer(w)] = << >>]
    /\ styles' = [styles EXCEPT ![w] = _build_styles]
    /\ story' = [story EXCEPT ![w] = << >>]
    /\ sym' = [sym EXCEPT ![w] = Symbol(data[w].currency)]
    /\ pc' = [pc EXCEPT ![w] = "header"]
    /\ UNCHANGED <<body, data, amounts, builds, canvas, raised, ret, response>>

\* lines 109-162
AppendHeader(w) ==
    /\ pc[w] = "header"
    /\ story' = [story EXCEPT ![w] =
                    @ \o HeaderBand(data[w], styles[w]) \o InfoBand(data[w], styles[w])]
    /\ pc' = [pc EXCEPT ![w] = "items"]
    /\ UNCHANGED <<body, data, calls, buf, heap, sym, styles, amounts, builds,
                   canvas, raised, ret, response>>

\* lines 164-206
AppendItems(w) ==
    /\ pc[w] = "items"
    /\ story' = [story EXCEPT ![w] = @ \o ItemsTable(data[w], sym[w], styles[w])]
    /\ pc' = [pc EXCEPT ![w] = "totals"]
    /\ UNCHANGED <<body, data, calls, buf, heap, sym, styles, amounts, builds,
                   canvas, raised, ret, response>>

\* lines 208-256
AppendTotals(w) ==
    /\ pc[w] = "totals"
    /\ amounts' = [amounts EXCEPT ![w] = Amounts(data[w])]
    /\ story' = [story EXCEPT ![w] =
                    @ \o TotalsTable(data[w], Amounts(data[w]), sym[w], styles[w])]
    /\ pc' = [pc EXCEPT ![w] = "notes"]
    /\ UNCHANGED <<body, data, calls, buf, heap, sym, styles, builds, canvas,
                   raised, ret, response>>

\* lines 258-261
AppendNotes(w) ==
    /\ pc[w] = "notes"
    /\ story' = [story EXCEPT ![w] = @ \o NotesRegion(data[w], styles[w])]
    /\ pc' = [pc EXCEPT ![w] = "footer"]
    /\ UNCHANGED <<body, data, calls, buf, heap, sym, styles, amounts, builds,
                   canvas, raised, ret, response>>

\* lines 263-276
AppendFooter(w) ==
    /\ pc[w] = "footer"
    /\ story' = [story EXCEPT ![w] = @ \o Footer(styles[w])]
    /\ pc' = [pc EXCEPT ![w] = "build"]
    /\ UNCHANGED <<body, data, calls, buf, heap, sym, styles, amounts, builds,
                   canvas, raised, ret, response>>

\* A build whose layout error is swallowed.
BuildAlwaysCompletes(layout) == TRUE

\* doc.build returns only when the whole story was placed.
BuildCompletes(layout) == layout.ok

\* line 278, the story is placed: the document is written to buf
Build(w) ==
    /\ pc[w] = "build"
    /\ BuildCompletes(Layout(story[w]))
    /\ builds' = [builds EXCEPT ![w] = @ + 1]
    /\ canvas' = [canvas EXCEPT ![w] = Layout(story[w]).pages]
    /\ heap' = [heap EXCEPT ![buf[w]] = @ \o Layout(story[w]).pages]
    /\ pc' = [pc EXCEPT ![w] = "built"]
    /\ UNCHANGED <<body, data, calls, buf, sym, styles, story, amounts, raised,
                   ret, response>>

\* line 278, a row cannot be placed: LayoutError leaves generate_invoice_pdf
\* and create_invoice; nothing was written to buf
BuildRaises(w) ==
    /\ pc[w] = "build"
    /\ ~BuildCompletes(Layout(story[w]))
    /\ builds' = [builds EXCEPT ![w] = @ + 1]
    /\ canvas' = [canvas EXCEPT ![w] = Layout(story[w]).pages]
    /\ raised' = [raised EXCEPT ![w] = TRUE]
    /\ pc' = [pc EXCEPT ![w] = "raised"]
    /\ UNCHANGED <<body, data, calls, buf, heap, sym, styles, story, amounts,
                   ret, response>>

\* line 279
Return(w) ==
    /\ pc[w] = "built"
    /\ ret' = [ret EXCEPT ![w] = Some(heap[buf[w]])]
    /\ pc' = [pc EXCEPT ![w] = "returned"]
    /\ UNCHANGED <<body, data, calls, buf, heap, sym, styles, story, amounts,
                   builds, canvas, raised, response>>

\* The invoice number used as the file name as it is.
FilenameBare(d) == d.invoice_number

\* main.py line 45
Filename(d) == d.invoice_number \o ".pdf"

\* main.py lines 47-51
StreamingResponse(pdf_bytes, filename) ==
    [ status |-> 200, media_type |-> "application/pdf",
      disposition |-> "attachment; filename=\"" \o filename \o "\"",
      body |-> pdf_bytes ]

Respond(w) ==
    /\ pc[w] = "returned"
    /\ response' = [response EXCEPT ![w] =
                      StreamingResponse(ret[w][1], Filename(data[w]))]
    /\ pc' = [pc EXCEPT ![w] = "responded"]
    /\ UNCHANGED <<body, data, calls, buf, heap, sym, styles, story, amounts,
                   builds, canvas, raised, ret>>

\* The exception is not caught in create_invoice: the server answers 500.
ServerError(w) ==
    /\ pc[w] = "raised"
    /\ response' = [response EXCEPT ![w] =
                      [ status |-> 500, media_type |-> "text/plain",
                        disposition |-> "", body |-> << >> ]]
    /\ pc' = [pc EXCEPT ![w] = "responded"]
    /\ UNCHANGED <<body, data, calls, buf, heap, sym, styles, story, amounts,
                   builds, canvas, raised, ret>>

Next ==
    \E w \in Workers :
        \/ Reject(w)
        \/ Accept(w)
        \/ Enter(w)
        \/ AppendHeader(w)
        \/ AppendItems(w)
        \/ AppendTotals(w)
        \/ AppendNotes(w)
        \/ AppendFooter(w)
        \/ Build(w)
        \/ BuildRaises(w)
        \/ Return(w)
        \/ Respond(w)
        \/ ServerError(w)

InitLocals ==
    /\ data = [w \in Workers |-> NoData]
    /\ calls = [w \in Workers |-> 0]
    /\ buf = [w \in Workers |-> 0]
    /\ heap = [b \in Workers |-> << >>]
    /\ sym = [w \in Workers |-> ""]
    /\ styles = [w \in Workers |-> << >>]
    /\ story = [w \in Workers |-> << >>]
    /\ amounts = [w \in Workers |-> NoAmounts]
    /\ builds = [w \in Workers |-> 0]
    /\ canvas = [w \in Workers |-> << >>]
    /\ raised = [w \in Workers |-> FALSE]
    /\ ret = [w \in Workers |-> None]
    /\ response = [w \in Workers |-> NoResponse]

\* One request, any body: worker 1 serves it, worker 2 has none.
Init ==
    /\ \E b \in Bodies : body = [w \in Workers |-> IF w = 1 THEN b ELSE NoBody]
    /\ pc = [w \in Workers |-> IF w = 1 THEN "request" ELSE "off"]
    /\ InitLocals

Spec == Init /\ [][Next]_vars

\* Two requests served at once by two worker threads.
ConcurrentBodies ==
    { b \in JsonBodies :
        /\ b.invoice_number # None
        /\ b.tax_rate = 7
        /\ b.discount = 100000
        /\ b.notes # None
        /\ \/ b.items = << >>
           \/ /\ Len(b.items) = 2
              /\ b.items[1].quantity = 2
              /\ b.items[2].unit_price \in {450000, 10100} }

InitConcurrent ==
    /\ body \in [Workers -> ConcurrentBodies]
    /\ pc = [w \in Workers |-> "request"]
    /\ InitLocals

SpecConcurrent == InitConcurrent /\ [][Next]_vars

-----------------------------------------------------------------------------
(* Vocabulary of the properties *)

ItemsDone(w) == calls[w] > 0 /\ pc[w] \notin {"header", "items"}
TotalsDone(w) == ItemsDone(w) /\ pc[w] # "totals"
NotesDone(w) == TotalsDone(w) /\ pc[w] # "notes"
StoryDone(w) == NotesDone(w) /\ pc[w] # "footer"

Regions(w, region) == SelectSeq(story[w], LAMBDA f : f.region = region)
HasRegion(w, region) == Len(Regions(w, region)) > 0

HasPrefix(text, prefix) ==
    /\ Len(text) >= Len(prefix)
    /\ SubSeq(text, 1, Len(prefix)) = prefix

Rest(text, prefix) == SubSeq(text, Len(prefix) + 1, Len(text))

\* The schema as the interface states it.
WellFormed(b) ==
    /\ b.syntax = "json"
    /\ b.invoice_number # None
    /\ b.items # << >>
    /\ \A k \in DOMAIN b.items : b.items[k].quantity >= 1 /\ b.items[k].unit_price >= 0
    /\ b.tax_rate \in 0..100
    /\ b.discount >= 0

\* Sum of quantity * unit_price, taken from the last item to the first.
RECURSIVE SumTo(_, _)
SumTo(items, n) ==
    IF n = 0 THEN 0
    ELSE SumTo(items, n - 1) + items[n].quantity * items[n].unit_price

-----------------------------------------------------------------------------
(* C1 *)

\* C1: once the totals are computed, the value generate_invoice_pdf formats
\* into the TOTAL row is subtotal + subtotal*taxRate/100 - discount, with
\* subtotal the sum of quantity*unitPrice over the items (stated times 100, so
\* without any division); it is not clamped: it is negative whenever the
\* discount exceeds subtotal plus tax, and it is the subtotal when taxRate and
\* discount are both 0.
C1_TotalIsExact ==
    \A w \in Workers :
        TotalsDone(w) =>
            LET d == data[w]
                sub == SumTo(d.items, Len(d.items))
                value == amounts[w].total
                totals == Regions(w, "totals")[1].rows
            IN  /\ 100 * value = 100 * sub + sub * d.tax_rate - 100 * d.discount
                /\ totals[4][3].text = "<b>" \o _currency(value, sym[w]) \o "</b>"
                /\ (100 * d.discount > 100 * sub + sub * d.tax_rate) => value < 0
                /\ (d.tax_rate = 0 /\ d.discount = 0) => value = sub

\* A taxed invoice whose discount exceeds subtotal plus tax has its totals.
C1_Witness ==
    \E w \in Workers :
        /\ TotalsDone(w)
        /\ data[w].tax_rate = 7
        /\ data[w].discount > amounts[w].subtotal + amounts[w].tax_amount
        /\ amounts[w].tax_amount > 0
        /\ amounts[w].total < 0

-----------------------------------------------------------------------------
(* C2 *)

\* C2 as claimed: once the notes step has run, the story holds a notes region
\* if and only if notes is not None.
C2_NotesIffPresent ==
    \A w \in Workers :
        NotesDone(w) => (HasRegion(w, "notes") <=> data[w].notes # None)

\* C2 amended: once the notes step has run, the story holds a notes region if
\* and only if notes is a non-empty string; None and "" both give none.
C2_NotesIffNonEmpty ==
    \A w \in Workers :
        /\ NotesDone(w) =>
              (HasRegion(w, "notes")
                  <=> (data[w].notes # None /\ data[w].notes # Some("")))
        /\ ~NotesDone(w) => ~HasRegion(w, "notes")

\* The notes step ran for notes = "" and appended nothing.
C2_Witness ==
    \E w \in Workers :
        /\ NotesDone(w)
        /\ data[w].notes = Some("")
        /\ ~HasRegion(w, "notes")

-----------------------------------------------------------------------------
(* C3 *)

ItemRowsOn(page) == SelectSeq(page, LAMBDA u : u.region = "items")

\* C3: in the document generate_invoice_pdf returns, every page on which the
\* item table continues from an earlier page has the table's header row as its
\* first table row.
C3_HeaderOnContinuationPages ==
    \A w \in Workers :
        ret[w] # None =>
            LET pages == ret[w][1]
            IN  \A p \in DOMAIN pages :
                    \A q \in DOMAIN pages :
                        ( /\ q < p
                          /\ ItemRowsOn(pages[q]) # << >>
                          /\ ItemRowsOn(pages[p]) # << >> )
                        => ItemRowsOn(pages[p])[1].row = 1

-----------------------------------------------------------------------------
(* C4 *)

\* The amounts of the story, each stripped of what wraps it: unit price and
\* amount of every item row, Subtotal, Tax, Discount (after the minus sign)
\* and TOTAL (inside <b>...</b>).
AmountTexts(w) ==
    LET items == IF HasRegion(w, "items") THEN Regions(w, "items")[1].rows ELSE << >>
        totals == IF HasRegion(w, "totals") THEN Regions(w, "totals")[1].rows ELSE << >>
    IN  { items[r][c].text : r \in (DOMAIN items) \ {1}, c \in {4, 5} }
        \cup { totals[r][3].text : r \in (DOMAIN totals) \cap {1, 2} }
        \cup { Rest(totals[r][3].text, MinusSign) : r \in (DOMAIN totals) \cap {3} }
        \cup { SubSeq(totals[r][3].text, 4, Len(totals[r][3].text) - 4) :
                 r \in (DOMAIN totals) \cap {4} }

Numeric(text) ==
    /\ Len(text) >= 4
    /\ SubSeq(text, 1, 1) \in {"-", "0", "1", "2", "3", "4", "5", "6", "7", "8", "9"}

\* C4: every amount of the story starts with "$" when currency is "USD" and
\* otherwise with the currency and one space, and the number follows
\* immediately; the Discount amount has it right after the minus sign.
C4_OnePrefix ==
    \A w \in Workers :
        LET prefix == IF data[w].currency = "USD" THEN "$"
                      ELSE data[w].currency \o " "
        IN  /\ \A t \in AmountTexts(w) :
                  HasPrefix(t, prefix) /\ Numeric(Rest(t, prefix))
            /\ TotalsDone(w) =>
                  /\ Cardinality(DOMAIN Regions(w, "totals")[1].rows) = 4
                  /\ HasPrefix(Regions(w, "totals")[1].rows[3][3].text, MinusSign)
                  /\ HasPrefix(Regions(w, "totals")[1].rows[4][3].text, "<b>")

\* A THB invoice with a negative total has all its amounts.
C4_Witness ==
    \E w \in Workers :
        /\ TotalsDone(w)
        /\ data[w].currency = "THB"
        /\ amounts[w].total < 0
        /\ Regions(w, "totals")[1].rows[1][3].text = "THB 195.00"
        /\ Cardinality(AmountTexts(w)) >= 5

-----------------------------------------------------------------------------
(* C5 *)

\* C5: when the layout of the story fails in doc.build, generate_invoice_pdf
\* returns nothing, nothing is written to its buffer, doc.build is entered once
\* and never again, and the response is never a success and carries no page.
C5_NoPartialDocument ==
    \A w \in Workers :
        (builds[w] > 0 /\ ~Layout(story[w]).ok) =>
            /\ ret[w] = None
            /\ heap[buf[w]] = << >>
            /\ builds[w] = 1
            /\ pc[w] \in {"raised", "responded"}
            /\ response[w].status # 200
            /\ response[w].body = << >>
            /\ pc[w] = "responded" => response[w].status = 500

\* Layout failed after a first page had been laid out, and the request was
\* answered.
C5_Witness ==
    \E w \in Workers :
        /\ pc[w] = "responded"
        /\ raised[w]
        /\ Len(canvas[w]) >= 1
        /\ response[w].status = 500

-----------------------------------------------------------------------------
(* C6 *)

\* C6: generate_invoice_pdf is entered only for a body that passed
\* validation: a body that is not JSON, lacks a required field, has an empty
\* items list, an item with quantity < 1 or unit_price < 0, tax_rate outside
\* [0,100] or discount < 0 never enters it and is answered 422.
C6_ValidatedBeforeRender ==
    \A w \in Workers :
        /\ calls[w] > 0 => WellFormed(body[w])
        /\ (pc[w] \notin {"request", "off"} /\ ~WellFormed(body[w])) =>
              /\ pc[w] = "responded"
              /\ response[w].status = 422
              /\ calls[w] = 0
              /\ builds[w] = 0
              /\ story[w] = << >>

\* A JSON body with every field and an empty items list was answered 422.
C6_Witness ==
    \E w \in Workers :
        /\ pc[w] = "responded"
        /\ body[w].syntax = "json"
        /\ body[w].invoice_number # None
        /\ body[w].items = << >>
        /\ body[w].tax_rate \in 0..100
        /\ body[w].discount >= 0
        /\ response[w].status = 422
        /\ calls[w] = 0

-----------------------------------------------------------------------------
(* C7 *)

Answer200(w) ==
    /\ response[w].status = 200
    /\ response[w].media_type = "application/pdf"
    /\ response[w].disposition =
          "attachment; filename=\"" \o body[w].invoice_number[1] \o ".pdf\""
    /\ ret[w] # None
    /\ response[w].body = ret[w][1]
    /\ response[w].body = Layout(story[w]).pages

-----------------------------------------------------------------------------
(* C8 *)

\* generate_invoice_pdf run alone on record d.
RenderAlone(d) ==
    Layout(HeaderBand(d, _build_styles) \o InfoBand(d, _build_styles)
           \o ItemsTable(d, Symbol(d.currency), _build_styles)
           \o TotalsTable(d, Amounts(d), Symbol(d.currency), _build_styles)
           \o NotesRegion(d, _build_styles) \o Footer(_build_styles))

\* C8: in every interleaving of concurrent calls, each call returns the
\* document that rendering its record alone gives, so two calls with the same
\* record return the same document, and a call whose build has completed
\* finds in its buffer its own document only.
C8_CallsAreIndependent ==
    \A w \in Workers :
        /\ ret[w] # None =>
              /\ RenderAlone(BookingInvoiceRequest(body[w])).ok
              /\ ret[w][1] = RenderAlone(BookingInvoiceRequest(body[w])).pages
              /\ \A v \in Workers :
                    (ret[v] # None /\ body[v] = body[w]) => ret[v] = ret[w]
        /\ pc[w] = "built" =>
              heap[buf[w]] = RenderAlone(BookingInvoiceRequest(body[w])).pages
        /\ StoryDone(w) =>
              Layout(story[w]) = RenderAlone(BookingInvoiceRequest(body[w]))

\* Two calls with different records have both written their document; one
\* has returned, the other has not yet.
C8_Witness ==
    /\ pc[1] = "returned"
    /\ pc[2] = "built"
    /\ body[1] # body[2]
    /\ ret[1] # None
    /\ heap[buf[2]] # ret[1][1]

-----------------------------------------------------------------------------
(* C9 *)

\* C9: the totals block has exactly four rows, labelled Subtotal, Tax,
\* Discount and TOTAL in that order, and the value of the Discount row is the
\* minus sign followed by the formatted discount for every discount >= 0; for
\* a discount of 0 in USD it is the minus sign followed by "$0.00".
C9_FourTotalsRows ==
    \A w \in Workers :
        TotalsDone(w) =>
            LET rows == Regions(w, "totals")[1].rows
                d == data[w]
                prefix == IF d.currency = "USD" THEN "$" ELSE d.currency \o " "
            IN  /\ Len(Regions(w, "totals")) = 1
                /\ Len(rows) = 4
                /\ rows[1][2].text = "<b>Subtotal</b>"
                /\ HasPrefix(rows[2][2].text, "<b>Tax (")
                /\ rows[3][2].text = "<b>Discount</b>"
                /\ rows[4][2].text = "<b>TOTAL</b>"
                /\ rows[3][3].text = MinusSign \o prefix \o Fixed2(d.discount)
                /\ (d.discount = 0 /\ d.currency = "USD") =>
                      rows[3][3].text = MinusSign \o "$0.00"
                /\ d.discount = 0 => rows[3][3].text = MinusSign \o prefix \o "0.00"
                /\ d.discount = 12345600 =>
                      rows[3][3].text = MinusSign \o prefix \o "1,234.56"

\* The totals of a USD invoice without discount are in the story.
C9_Witness ==
    \E w \in Workers :
        /\ TotalsDone(w)
        /\ data[w].discount = 0
        /\ data[w].currency = "USD"
        /\ Regions(w, "totals")[1].rows[3][3].text = MinusSign \o "$0.00"

-----------------------------------------------------------------------------
(* C10 *)

\* C10: the item table is one header row followed by one data row per item in
\* the order of the record; the k-th data row shows k, the description and
\* quantity of the k-th item, its unit price and quantity * unit_price as
\* amount; a record of one item gives a single data row numbered 1.
C10_OneRowPerItem ==
    \A w \in Workers :
        ItemsDone(w) =>
            LET rows == Regions(w, "items")[1].rows
                items == data[w].items
                prefix == IF data[w].currency = "USD" THEN "$"
                          ELSE data[w].currency \o " "
            IN  /\ Len(Regions(w, "items")) = 1
                /\ Len(rows) = Len(items) + 1
                /\ [c \in 1..5 |-> rows[1][c].text] =
                      << "<b>#</b>", "<b>Description</b>", "<b>Qty</b>",
                         "<b>Unit Price</b>", "<b>Amount</b>" >>
                /\ \A k \in 1..Len(items) :
                      /\ Len(rows[k + 1]) = 5
                      /\ rows[k + 1][1].text = Digits[k + 1]
                      /\ rows[k + 1][2].text = items[k].description
                      /\ rows[k + 1][3].text = Digits[items[k].quantity + 1]
                      /\ rows[k + 1][4].text = prefix \o Fixed2(items[k].unit_price)
                      /\ rows[k + 1][5].text =
                            prefix \o Fixed2(items[k].quantity * items[k].unit_price)
                /\ Len(items) = 1 => (Len(rows) = 2 /\ rows[2][1].text = "1")

\* A table of several items, the second of them twice 75.00.
C10_Witness ==
    \E w \in Workers :
        /\ ItemsDone(w)
        /\ Len(data[w].items) >= 2
        /\ data[w].items[2].quantity = 2
        /\ Regions(w, "items")[1].rows[3][1].text = "2"
        /\ Regions(w, "items")[1].rows[3][5].text = "$150.00"

-----------------------------------------------------------------------------
(* C11 *)

\* Row `row` of the table (0 is the header, k is the k-th data row) is given
\* background `colour` by the table style.
Shaded(table, row, colour) ==
    \E j \in DOMAIN table.backgrounds :
        table.backgrounds[j] = [row |-> row, colour |-> colour]

\* C11: in the item table a data row has the alternate shade if and only if
\* its position among the data rows, counted from 1, is even; the header row
\* never has it, and no shade is given to a row the table does not have.
C11_EvenRowsShaded ==
    \A w \in Workers :
        ItemsDone(w) =>
            LET table == Regions(w, "items")[1]
                n == Len(data[w].items)
            IN  /\ \A k \in 1..n :
                      Shaded(table, k, "TABLE_ALT_ROW") <=> k \in {2, 4, 6, 8}
                /\ \A k \in 1..n : ~Shaded(table, k, "TABLE_HEADER_BG")
                /\ ~Shaded(table, 0, "TABLE_ALT_ROW")
                /\ Shaded(table, 0, "TABLE_HEADER_BG")
                /\ \A j \in DOMAIN table.backgrounds :
                      table.backgrounds[j].row \in 0..n

\* A table of three items: the second row is shaded, the first and third not.
C11_Witness ==
    \E w \in Workers :
        /\ ItemsDone(w)
        /\ Len(data[w].items) = 3
        /\ Shaded(Regions(w, "items")[1], 2, "TABLE_ALT_ROW")
        /\ ~Shaded(Regions(w, "items")[1], 1, "TABLE_ALT_ROW")
        /\ ~Shaded(Regions(w, "items")[1], 3, "TABLE_ALT_ROW")

====
